---- MODULE Spec2Model ----
(***************************************************************************)
(* The three server variants of the avatar-agent repository:              *)
(*   "server" : src/server.js          (Florent, history cap 10, Simli)    *)
(*   "speak"  : src/unnamed/part_001   (Elsa V2, history cap 6, TTS)       *)
(*   "proxy"  : src/unnamed/part_000   (Simli proxy, no history)           *)
(* A handler runs atomically between two awaits (Node's single thread);   *)
(* every await of an external call is a separate step whose outcome is    *)
(* chosen nondeterministically.  Requests in flight occupy a slot.        *)
(***************************************************************************)
EXTENDS Naturals, Sequences, FiniteSets, TLC

\* ------------------------------------------------------------------ bounds
MaxReqServer == 6
MaxReqSpeak == 7
MaxReqProxy == 3
\* only the first MaxOverlap requests may start while another is in flight
MaxOverlap == 2
Slots == {1, 2}

\* ------------------------------------------------------------------ text
\* A string is a sequence of atoms; a template literal is the concatenation
\* of its literal parts and its interpolated values.
Lit(s) == <<[tag |-> s, n |-> 0]>>
Num(k) == <<[tag |-> "num", n |-> k]>>
EmptyString == << >>
Undefined == <<[tag |-> "undefined", n |-> 0]>>
Absent == <<[tag |-> "absent", n |-> 0]>>
Utterance(id) == <<[tag |-> "utterance", n |-> id]>>
SlideContext(id) == <<[tag |-> "context", n |-> id]>>
SlideImage(id) == <<[tag |-> "image", n |-> id]>>
Completion(id) == <<[tag |-> "completion", n |-> id]>>
Passages(id) == <<[tag |-> "passages", n |-> id]>>

\* JSON.stringify drops a field whose value is undefined
JsonField(v) == IF v = Undefined THEN Absent ELSE v

\* Array.prototype.slice(-n)
SliceLast(seq, n) ==
    IF Len(seq) <= n THEN seq ELSE SubSeq(seq, Len(seq) - n + 1, Len(seq))

Turn(role, content) == [role |-> role, content |-> content]

\* ------------------------------------------------------------------ state
VARIABLES variant, env, conversationHistory, req, nextId, wire, appended, fresh

vars == <<variant, env, conversationHistory, req, nextId, wire, appended, fresh>>

\* appended: every turn pushed since the last reset, in push order (history
\*           variable of the verification, never read by a handler)
\* fresh:    "no", or a start-session request has finished and no request
\*           started since: "cleared" if its reset dropped turns, else "empty"
\* crossedReset (of a request): a reset happened while the request was in
\*           flight and had not saved its turns yet
\* failure (of a request): the failed step that ended the handler: "config",
\*           "input", "llm", "parse", "tts", "simli", "retriever"; else "none"
\* wire:     what the step just taken put on the wire, with the handler's
\*           locals at that moment: the external call it started (pc names the
\*           call awaited) or the HTTP response it sent (pc = "done");
\*           IdleReq if nothing
\* req[s]:   the request in flight in slot s, with the locals its remaining
\*           code still reads

IdleReq ==
    [pc |-> "idle", ep |-> "none", id |-> 0, type |-> "none",
     text |-> EmptyString, context |-> EmptyString, image |-> EmptyString,
     slideIndex |-> 0, totalSlides |-> 0,
     messages |-> << >>, knowledge |-> EmptyString, finalScript |-> EmptyString,
     model |-> 0, llmCalls |-> 0, ttsCalls |-> 0, simliCalls |-> 0,
     retrieverCalls |-> 0, ttsText |-> EmptyString, pushes |-> 0,
     ttsFailed |-> FALSE, simliFailed |-> FALSE, llmOk |-> FALSE,
     afterReset |-> "no", builtClean |-> FALSE, hadTurns |-> FALSE,
     status |-> 0, body |-> "none", bodyText |-> Absent, bodySimli |-> "absent",
     decision |-> "none", responses |-> 0,
     failure |-> "none", lastErr |-> 0, thrown |-> 0, usedModel |-> 0,
     retrieverFailed |-> FALSE, crossedReset |-> FALSE]

\* res.status(status).json(body)
Respond(r, status, body, text, simli) ==
    [r EXCEPT !.pc = "done", !.status = status, !.body = body,
              !.bodyText = text, !.bodySimli = simli, !.responses = @ + 1]

CapSpeak == 6
CapServer == 10
Cap == IF variant = "speak" THEN CapSpeak ELSE CapServer

MaxReq ==
    CASE variant = "server" -> MaxReqServer
      [] variant = "speak" -> MaxReqSpeak
      [] OTHER -> MaxReqProxy

\* the locals no statement after the await reads again are dropped
\* (callOpenAIChat passes messages to its next candidate: model > 0)
Awaiting(r) ==
    [r EXCEPT !.messages = IF r.pc = "llm" /\ r.model > 0 THEN @ ELSE << >>,
              !.slideIndex = 0, !.totalSlides = 0,
              !.image = EmptyString, !.context = EmptyString,
              !.knowledge = EmptyString,
              !.usedModel = 0, !.retrieverFailed = FALSE]

\* the response is sent and the slot is free again
Finish(s, r) ==
    /\ req' = [req EXCEPT ![s] = IdleReq]
    /\ wire' = r

\* the handler started the external call r.pc names and awaits it
Continue(s, r) ==
    /\ req' = [req EXCEPT ![s] = Awaiting(r)]
    /\ wire' = r

\* a reset happened: the requests in flight that have not saved their turns
\* yet (they await the retriever or the model) are marked as crossing it
MarkCrossed(q) ==
    [t \in Slots |-> IF q[t].pc \in {"embed", "query", "llm"}
                        /\ q[t].ep \in {"speak", "present", "interact"}
                     THEN [q[t] EXCEPT !.crossedReset = TRUE] ELSE q[t]]

\* a new request enters slot s with the next request number
NewReq(ep) ==
    [IdleReq EXCEPT !.ep = ep, !.id = nextId + 1, !.afterReset = fresh]

\* a request takes the lowest free slot
CanStart(s) ==
    /\ req[s].pc = "idle"
    /\ \A t \in Slots : t < s => req[t].pc # "idle"
    /\ nextId < MaxReq
    /\ (\E t \in Slots : req[t].pc # "idle") => nextId < MaxOverlap

\* ================================================================ part_001
SpeakTypes ==
    {"SHOULD_ASK", "DECIDE_NEXT_MOVE", "PRESENT", "ANSWER", "TTS_ONLY", "SING"}

\* the request bodies enumerated: the text of a TTS_ONLY request may be missing
SpeakTexts(type, id) ==
    IF type = "TTS_ONLY" THEN {Utterance(id), Undefined} ELSE {Utterance(id)}
\* slideIndex and totalSlides of the request body (0: the field is missing)
SlideNumbers == {0, 1, 2, 3}
SlideTotals == {0, 1, 3}

StyleInstruction_LastFirst(slideIndex, totalSlides) ==
    IF slideIndex = totalSlides THEN Lit("closing")
    ELSE IF slideIndex = 1 THEN Lit("opening")
    ELSE Lit("transition")

\* part_001:121-133
StyleInstruction(slideIndex, totalSlides) ==
    IF slideIndex = 1 THEN Lit("opening")
    ELSE IF slideIndex = totalSlides THEN Lit("closing")
    ELSE Lit("transition")

\* part_001:135-151
PresentMessages(slideIndex, totalSlides, text, image) ==
    << [role |-> "system",
        content |-> Lit("Elsa") \o StyleInstruction(slideIndex, totalSlides)
                        \o Lit("rules")],
       [role |-> "user",
        content |-> Lit("showing") \o Num(slideIndex) \o text \o Lit("image")
                        \o image] >>

AnswerMessages_MemoryLast(pineconeData, context, history, text) ==
    << [role |-> "system",
        content |-> Lit("knowledge") \o pineconeData \o Lit("slide") \o context
                        \o Lit("task")] >>
    \o << [role |-> "user", content |-> text] >>
    \o history

\* part_001:165-180
AnswerMessages(pineconeData, context, history, text) ==
    << [role |-> "system",
        content |-> Lit("knowledge") \o pineconeData \o Lit("slide") \o context
                        \o Lit("task")] >>
    \o history
    \o << [role |-> "user", content |-> text] >>

\* part_001:59-81 and 96-109
ClassifyMessages(type, slideIndex, totalSlides, text) ==
    IF type = "SHOULD_ASK"
    THEN << [role |-> "system",
             content |-> Lit("ask-rules") \o Num(slideIndex) \o Num(totalSlides)
                             \o (IF text = Undefined THEN EmptyString ELSE text)],
            [role |-> "user", content |-> Lit("decide-ask")] >>
    ELSE << [role |-> "system", content |-> Lit("brain-rules")],
            [role |-> "user", content |-> text] >>

SpeakMemoryTurns_Always(type, finalScript) ==
    << Turn("assistant", finalScript) >>

\* part_001:200-201  the turns this request pushes
SpeakMemoryTurns(type, finalScript) ==
    IF type # "TTS_ONLY" THEN << Turn("assistant", finalScript) >> ELSE << >>

\* part_001:202
SpeakTruncate(history) ==
    IF Len(history) > CapSpeak THEN SliceLast(history, CapSpeak) ELSE history

SpeakSaveAndSynthesize_SaveAfterAudio(s, r, finalScript) ==
    /\ conversationHistory' = conversationHistory
    /\ appended' = appended
    /\ Continue(s, [r EXCEPT !.pc = "tts", !.finalScript = finalScript,
                             !.ttsCalls = @ + 1, !.ttsText = finalScript])

\* part_001:197-217  save memory, then start the speech synthesis call
SpeakSaveAndSynthesize(s, r, finalScript) ==
    LET pushed == SpeakMemoryTurns(r.type, finalScript) IN
    /\ conversationHistory' =
          IF pushed # << >> THEN SpeakTruncate(conversationHistory \o pushed)
          ELSE conversationHistory
    /\ appended' = appended \o pushed
    /\ Continue(s, [r EXCEPT !.pc = "tts", !.finalScript = finalScript,
                             !.pushes = @ + Len(pushed),
                             !.ttsCalls = @ + 1, !.ttsText = finalScript])

\* part_001:164-188  messages are built from the history as it is now
SpeakBuildAnswer(s, r, pineconeData) ==
    /\ Continue(s, [r EXCEPT !.pc = "llm", !.knowledge = pineconeData,
                             !.context = SlideContext(r.id),
                             !.messages = AnswerMessages(pineconeData, SlideContext(r.id),
                                              conversationHistory, r.text),
                             !.builtClean = (appended = << >>),
                             !.llmCalls = @ + 1])
    /\ UNCHANGED <<conversationHistory, appended>>

SimliConfigReset_Keeps == conversationHistory

\* part_001:43  conversationHistory = []
SimliConfigReset == << >>

\* part_001:42-45  GET /simli-config
SimliConfig ==
    /\ variant = "speak"
    /\ conversationHistory' = SimliConfigReset
    /\ appended' = << >>
    /\ fresh' = IF conversationHistory # << >> THEN "cleared" ELSE "empty"
    /\ wire' = Respond([IdleReq EXCEPT !.ep = "simli-config",
                                       !.hadTurns = (conversationHistory # << >>)],
                       200, "config", Absent, "absent")
    /\ req' = MarkCrossed(req)
    /\ UNCHANGED <<variant, env, nextId>>

\* part_001:47-56, 93, 120-158, 163-164, 193-217  the handler up to its first await
SpeakStart(s) ==
    /\ variant = "speak"
    /\ CanStart(s)
    /\ \E type \in SpeakTypes : \E text \in SpeakTexts(type, nextId + 1) :
         LET r0 == [NewReq("speak") EXCEPT !.type = type, !.text = text] IN
         CASE type \in {"SHOULD_ASK", "DECIDE_NEXT_MOVE"} ->
                \E i \in {2}, n \in {3} :
                  /\ Continue(s, [r0 EXCEPT !.pc = "classify", !.llmCalls = 1,
                                            !.messages = ClassifyMessages(type, i, n, text)])
                  /\ UNCHANGED <<conversationHistory, appended>>
           [] type = "PRESENT" ->
                \E i \in SlideNumbers, n \in SlideTotals,
                   image \in {SlideImage(nextId + 1)} :
                  /\ Continue(s, [r0 EXCEPT !.pc = "llm", !.llmCalls = 1,
                                            !.slideIndex = i, !.totalSlides = n,
                                            !.image = image,
                                            !.messages = PresentMessages(i, n, text, image)])
                  /\ UNCHANGED <<conversationHistory, appended>>
           [] type = "ANSWER" ->
                IF ~env.PINECONE
                THEN SpeakBuildAnswer(s, r0, EmptyString)
                ELSE /\ Continue(s, [r0 EXCEPT !.pc = "embed", !.retrieverCalls = 1])
                     /\ UNCHANGED <<conversationHistory, appended>>
           [] type = "TTS_ONLY" -> SpeakSaveAndSynthesize(s, r0, text)
           [] OTHER -> SpeakSaveAndSynthesize(s, r0, EmptyString)
    /\ nextId' = nextId + 1
    /\ fresh' = "no"
    /\ UNCHANGED <<variant, env>>

SpeakCatch_TextOnly(r) ==
    Respond(r, 200, "speech", JsonField(r.finalScript), "absent")

\* part_001:224-227  catch (error)
SpeakCatch(r) == Respond(r, 500, "error", Absent, "absent")

SpeakRetrieverFailed_Throws(s, r) ==
    /\ Finish(s, SpeakCatch([r EXCEPT !.retrieverFailed = TRUE,
                                      !.failure = "retriever"]))
    /\ UNCHANGED <<conversationHistory, appended>>

\* part_001:39  catch (e) { return ""; }: the answer goes on with no knowledge
SpeakRetrieverFailed(s, r) ==
    SpeakBuildAnswer(s, [r EXCEPT !.retrieverFailed = TRUE], EmptyString)

\* part_001:32-40  getCompanyKnowledge after the embedding call returned
SpeakEmbedded(s) ==
    /\ variant = "speak"
    /\ req[s].ep = "speak" /\ req[s].pc = "embed"
    /\ \/ /\ Continue(s, [req[s] EXCEPT !.pc = "query", !.retrieverCalls = @ + 1])
          /\ UNCHANGED <<conversationHistory, appended>>
       \/ SpeakRetrieverFailed(s, req[s])
    /\ UNCHANGED <<variant, env, nextId, fresh>>

\* part_001:37-39  the index query returned (matches, no match, or an error)
SpeakQueried(s) ==
    /\ variant = "speak"
    /\ req[s].ep = "speak" /\ req[s].pc = "query"
    /\ \/ \E k \in {Passages(req[s].id), EmptyString} : SpeakBuildAnswer(s, req[s], k)
       \/ SpeakRetrieverFailed(s, req[s])
    /\ UNCHANGED <<variant, env, nextId, fresh>>

\* what the classifier model may put in choices[0].message.content
ClassifierOutputs ==
    {"{\"action\":\"ANSWER\"}", "{\"action\":\"RESUME\"}", "{\"action\":\"MAYBE\"}",
     "{\"ask\":true}", "I think so", "null-content"}

\* JSON.parse of such a content (null is coerced to the text "null")
JSONparse(c) ==
    CASE c = "{\"action\":\"ANSWER\"}" -> [threw |-> FALSE, isNull |-> FALSE, action |-> "ANSWER", ask |-> "absent"]
      [] c = "{\"action\":\"RESUME\"}" -> [threw |-> FALSE, isNull |-> FALSE, action |-> "RESUME", ask |-> "absent"]
      [] c = "{\"action\":\"MAYBE\"}" -> [threw |-> FALSE, isNull |-> FALSE, action |-> "MAYBE", ask |-> "absent"]
      [] c = "{\"ask\":true}" -> [threw |-> FALSE, isNull |-> FALSE, action |-> "absent", ask |-> "true"]
      [] c = "{\"ask\":false}" -> [threw |-> FALSE, isNull |-> FALSE, action |-> "absent", ask |-> "false"]
      [] c = "{}" -> [threw |-> FALSE, isNull |-> FALSE, action |-> "absent", ask |-> "absent"]
      [] c = "null-content" -> [threw |-> FALSE, isNull |-> TRUE, action |-> "absent", ask |-> "absent"]
      [] OTHER -> [threw |-> TRUE, isNull |-> FALSE, action |-> "absent", ask |-> "absent"]

\* part_001:86-87  SHOULD_ASK: JSON.parse(content || "{}"), { ask: !!decision.ask }
ShouldAskResponse(r, c) ==
    LET decision == JSONparse(IF c = "null-content" THEN "{}" ELSE c) IN
    IF decision.threw THEN SpeakCatch([r EXCEPT !.failure = "parse"])
    ELSE [Respond(r, 200, "ask", Absent, "absent") EXCEPT
             !.decision = IF decision.ask = "true" THEN "true" ELSE "false"]

\* part_001:114-116  DECIDE_NEXT_MOVE: res.json(JSON.parse(content))
DecideResponse(r, c) ==
    LET decision == JSONparse(c) IN
    IF decision.threw THEN SpeakCatch([r EXCEPT !.failure = "parse"])
    ELSE [Respond(r, 200, "decision", Absent, "absent") EXCEPT
             !.decision = IF decision.isNull THEN "null" ELSE decision.action]

SpeakReturnDecision_FallsThrough(s, r, c) ==
    SpeakSaveAndSynthesize(s, r, EmptyString)

\* part_001:86-88, 114-117  parse the decision and return it: the handler ends
SpeakReturnDecision(s, r, c) ==
    /\ Finish(s, IF r.type = "SHOULD_ASK" THEN ShouldAskResponse(r, c)
                 ELSE DecideResponse(r, c))
    /\ UNCHANGED <<conversationHistory, appended>>

\* part_001:57-88, 94-117  the classification call returned or failed
SpeakClassified(s) ==
    /\ variant = "speak"
    /\ req[s].ep = "speak" /\ req[s].pc = "classify"
    /\ \/ /\ Finish(s, SpeakCatch([req[s] EXCEPT !.failure = "llm"]))
          /\ UNCHANGED <<conversationHistory, appended>>
       \/ \E c \in ClassifierOutputs :
            SpeakReturnDecision(s, [req[s] EXCEPT !.llmOk = TRUE], c)
    /\ UNCHANGED <<variant, env, nextId, fresh>>

\* part_001:153-159, 182-188  the chat completion of PRESENT or ANSWER returned
SpeakCompleted(s) ==
    /\ variant = "speak"
    /\ req[s].ep = "speak" /\ req[s].pc = "llm"
    /\ \/ /\ Finish(s, SpeakCatch([req[s] EXCEPT !.failure = "llm"]))
          /\ UNCHANGED <<conversationHistory, appended>>
       \/ SpeakSaveAndSynthesize(s, [req[s] EXCEPT !.llmOk = TRUE],
                                 Completion(req[s].id))
    /\ UNCHANGED <<variant, env, nextId, fresh>>

\* part_001:219-222  res.json({ text: finalScript, audio })
SpeakSuccess(r) == Respond(r, 200, "speech", JsonField(r.finalScript), "absent")

\* part_001:206-227  the speech synthesis call returned
SpeakSynthesized(s) ==
    /\ variant = "speak"
    /\ req[s].ep = "speak" /\ req[s].pc = "tts"
    /\ \/ Finish(s, SpeakSuccess(req[s]))
       \/ Finish(s, SpeakCatch([req[s] EXCEPT !.ttsFailed = TRUE, !.failure = "tts"]))
    /\ UNCHANGED <<variant, env, conversationHistory, nextId, appended, fresh>>

NextSpeak ==
    \/ SimliConfig
    \/ \E s \in Slots : SpeakStart(s)
    \/ \E s \in Slots : SpeakEmbedded(s)
    \/ \E s \in Slots : SpeakQueried(s)
    \/ \E s \in Slots : SpeakClassified(s)
    \/ \E s \in Slots : SpeakCompleted(s)
    \/ \E s \in Slots : SpeakSynthesized(s)


\* ================================================================ initial states
NoEnv == [OPENAI |-> TRUE, PINECONE |-> FALSE, SIMLI_API_KEY |-> TRUE,
          SIMLI_FACE_ID |-> TRUE]

InitCommon ==
    /\ conversationHistory = << >>
    /\ req = [s \in Slots |-> IdleReq]
    /\ nextId = 0
    /\ wire = IdleReq
    /\ appended = << >>
    /\ fresh = "no"


\* ================================================================ server.js
\* server.js:33  candidateModels.length
NumCandidates == 3

\* server.js:130-143
FlorentPresentMessages(slide_text) ==
    << [role |-> "system", content |-> Lit("Florent presenting")],
       [role |-> "user", content |-> slide_text] >>

\* server.js:199-226
InteractMessages(companyInfo, slide_context, history, user_question) ==
    << [role |-> "system",
        content |-> Lit("Florent interrupted") \o Lit("brain") \o companyInfo
                        \o Lit("slide") \o slide_context \o Lit("instructions")] >>
    \o history
    \o << [role |-> "user",
           content |-> Lit("Question: ") \o user_question] >>

\* server.js:150
FlorentPresentTurns(speech) ==
    << Turn("assistant", Lit("(Florent presented): ") \o speech) >>

\* server.js:239-240
InteractTurns(user_question, answer) ==
    << Turn("user", user_question), Turn("assistant", answer) >>

FlorentPresentSave_OnCopy(history, pushed) == history

\* server.js:150  /agent/present pushes and leaves the length alone
FlorentPresentSave(history, pushed) == history \o pushed

InteractSave_Unshift(history, pushed) ==
    IF Len(pushed \o history) > CapServer
    THEN SliceLast(pushed \o history, CapServer)
    ELSE pushed \o history

\* server.js:239-243
InteractSave(history, pushed) ==
    IF Len(history \o pushed) > CapServer
    THEN SliceLast(history \o pushed, CapServer)
    ELSE history \o pushed

ServerCatch_Fallback(r) ==
    Respond(r, 200, "speech", JsonField(r.finalScript), "null")

\* server.js:174-177, 267-270  catch (error)
ServerCatch(r) == Respond(r, 500, "error", Absent, "absent")

\* server.js:31-42  callOpenAIChat starts with the first candidate
CallOpenAIChat(s, r, messages) ==
    Continue(s, [r EXCEPT !.pc = "llm", !.model = 1, !.llmCalls = @ + 1,
                          !.messages = messages])

StartSessionReset_Keeps == conversationHistory

\* server.js:97  conversationHistory = []
StartSessionReset == << >>

\* server.js:94-110  POST /simli/start-session up to the provider call
ServerStartSession(s) ==
    /\ variant = "server"
    /\ CanStart(s)
    /\ conversationHistory' = StartSessionReset
    /\ appended' = << >>
    /\ LET r == [NewReq("start-session") EXCEPT
                     !.pc = "simli", !.simliCalls = 1,
                     !.hadTurns = (conversationHistory # << >>)]
       IN /\ req' = [MarkCrossed(req) EXCEPT ![s] = Awaiting(r)]
          /\ wire' = r
    /\ nextId' = nextId + 1
    /\ fresh' = "no"
    /\ UNCHANGED <<variant, env>>

\* server.js:106-117  the provider answered the start-session call
ServerSessionStarted(s) ==
    /\ variant = "server"
    /\ req[s].ep = "start-session" /\ req[s].pc = "simli"
    /\ \/ Finish(s, Respond(req[s], 200, "upstream", Absent, "absent"))
       \/ \E b \in {"upstream", "string"} :
            Finish(s, Respond([req[s] EXCEPT !.simliFailed = TRUE,
                                           !.failure = "simli"], 500, b,
                              Absent, "absent"))
    /\ fresh' = IF req[s].hadTurns THEN "cleared" ELSE "empty"
    /\ UNCHANGED <<variant, env, conversationHistory, nextId, appended>>

\* server.js:123-145  POST /agent/present up to the first model call
ServerPresent(s) ==
    /\ variant = "server"
    /\ CanStart(s)
    /\ LET r0 == [NewReq("present") EXCEPT !.text = Utterance(nextId + 1)] IN
       IF ~env.OPENAI
       THEN Finish(s, Respond([r0 EXCEPT !.failure = "config"], 500, "error",
                              Absent, "absent"))
       ELSE CallOpenAIChat(s, r0, FlorentPresentMessages(r0.text))
    /\ nextId' = nextId + 1
    /\ fresh' = "no"
    /\ UNCHANGED <<variant, env, conversationHistory, appended>>

InteractBuild_PushesQuestionFirst(s, r, companyInfo) ==
    /\ CallOpenAIChat(s, [r EXCEPT !.knowledge = companyInfo,
                                   !.context = SlideContext(r.id),
                                   !.builtClean = (appended = << >>),
                                   !.pushes = @ + 1],
                      InteractMessages(companyInfo, SlideContext(r.id),
                                       conversationHistory, r.text))
    /\ conversationHistory' = conversationHistory \o << Turn("user", r.text) >>
    /\ appended' = appended \o << Turn("user", r.text) >>

\* server.js:192-232  messages are built from the history as it is now
InteractBuild(s, r, companyInfo) ==
    /\ CallOpenAIChat(s, [r EXCEPT !.knowledge = companyInfo,
                                   !.context = SlideContext(r.id),
                                   !.builtClean = (appended = << >>)],
                      InteractMessages(companyInfo, SlideContext(r.id),
                                       conversationHistory, r.text))
    /\ UNCHANGED <<conversationHistory, appended>>

\* server.js:183-192, 60-66  POST /agent/interact up to its first await
ServerInteract(s) ==
    /\ variant = "server"
    /\ CanStart(s)
    /\ LET r0 == [NewReq("interact") EXCEPT !.text = Utterance(nextId + 1)] IN
       IF ~env.OPENAI
       THEN /\ Finish(s, Respond([r0 EXCEPT !.failure = "config"], 500, "error",
                                   Absent, "absent"))
            /\ UNCHANGED <<conversationHistory, appended>>
       ELSE IF ~env.PINECONE
       THEN InteractBuild(s, r0, EmptyString)
       ELSE /\ Continue(s, [r0 EXCEPT !.pc = "embed", !.retrieverCalls = 1])
            /\ UNCHANGED <<conversationHistory, appended>>
    /\ nextId' = nextId + 1
    /\ fresh' = "no"
    /\ UNCHANGED <<variant, env>>

\* server.js:74-77  catch (e) { return ""; }
ServerRetrieverFailed(s, r) ==
    InteractBuild(s, [r EXCEPT !.retrieverFailed = TRUE], EmptyString)

\* server.js:63-78  the embedding call returned
ServerEmbedded(s) ==
    /\ variant = "server"
    /\ req[s].ep = "interact" /\ req[s].pc = "embed"
    /\ \/ /\ Continue(s, [req[s] EXCEPT !.pc = "query", !.retrieverCalls = @ + 1])
          /\ UNCHANGED <<conversationHistory, appended>>
       \/ ServerRetrieverFailed(s, req[s])
    /\ UNCHANGED <<variant, env, nextId, fresh>>

\* server.js:68-78  the index query returned (matches, no match, or an error)
ServerQueried(s) ==
    /\ variant = "server"
    /\ req[s].ep = "interact" /\ req[s].pc = "query"
    /\ \/ \E k \in {Passages(req[s].id), EmptyString} : InteractBuild(s, req[s], k)
       \/ ServerRetrieverFailed(s, req[s])
    /\ UNCHANGED <<variant, env, nextId, fresh>>

\* server.js:145-167, 232-260  a candidate model answered: save to memory and
\* start the Simli call
ServerCompleted(s) ==
    /\ variant = "server"
    /\ req[s].ep \in {"present", "interact"} /\ req[s].pc = "llm"
    /\ LET r == [req[s] EXCEPT !.llmOk = TRUE, !.usedModel = req[s].model,
                               !.finalScript = Completion(req[s].id)]
           pushed == IF r.ep = "present"
                     THEN FlorentPresentTurns(r.finalScript)
                     ELSE InteractTurns(r.text, r.finalScript)
       IN /\ conversationHistory' =
                IF r.ep = "present"
                THEN FlorentPresentSave(conversationHistory, pushed)
                ELSE InteractSave(conversationHistory, pushed)
          /\ appended' = appended \o pushed
          /\ Continue(s, [r EXCEPT !.pc = "simli", !.pushes = @ + Len(pushed),
                                   !.simliCalls = @ + 1])
    /\ UNCHANGED <<variant, env, nextId, fresh>>

KeepLastErr_First(lastErr, model) == IF lastErr = 0 THEN model ELSE lastErr

\* server.js:43-46  catch (e) { lastErr = e }: the error kept is the one of the
\* candidate that just failed (candidates are numbered in list order)
KeepLastErr(lastErr, model) == model

\* server.js:43-48, 174-177, 267-270  a candidate model failed: try the next
\* one, or rethrow the last error into the handler's catch
ServerCandidateFailed(s) ==
    /\ variant = "server"
    /\ req[s].ep \in {"present", "interact"} /\ req[s].pc = "llm"
    /\ LET r == [req[s] EXCEPT !.lastErr = KeepLastErr(@, req[s].model)] IN
       IF r.model < NumCandidates
       THEN Continue(s, [r EXCEPT !.model = @ + 1, !.llmCalls = @ + 1])
       ELSE Finish(s, ServerCatch([r EXCEPT !.thrown = r.lastErr,
                                            !.failure = "llm"]))
    /\ UNCHANGED <<variant, env, conversationHistory, nextId, appended, fresh>>

\* server.js:160-173, 253-266  the Simli call returned or failed
ServerSimliReturned(s) ==
    /\ variant = "server"
    /\ req[s].ep \in {"present", "interact"} /\ req[s].pc = "simli"
    /\ \/ Finish(s, Respond(req[s], 200, "speech", JsonField(req[s].finalScript), "data"))
       \/ Finish(s, Respond([req[s] EXCEPT !.simliFailed = TRUE], 200, "speech",
                            JsonField(req[s].finalScript), "null"))
    /\ UNCHANGED <<variant, env, conversationHistory, nextId, appended, fresh>>

\* server.js:274-285  GET /test-pinecone up to the embedding call; with no
\* OpenAI client the call throws a TypeError into the catch
ServerTestPinecone(s) ==
    /\ variant = "server"
    /\ CanStart(s)
    /\ LET r0 == NewReq("test-pinecone") IN
       IF ~env.OPENAI
       THEN Finish(s, ServerCatch([r0 EXCEPT !.failure = "config"]))
       ELSE Continue(s, [r0 EXCEPT !.pc = "embed", !.retrieverCalls = 1])
    /\ nextId' = nextId + 1
    /\ fresh' = "no"
    /\ UNCHANGED <<variant, env, conversationHistory, appended>>

\* server.js:282-296, 306-308  the embedding call returned: only now is the
\* Pinecone configuration checked
ServerTestEmbedded(s) ==
    /\ variant = "server"
    /\ req[s].ep = "test-pinecone" /\ req[s].pc = "embed"
    /\ \/ Finish(s, ServerCatch([req[s] EXCEPT !.retrieverFailed = TRUE,
                                                !.failure = "retriever"]))
       \/ IF ~env.PINECONE
          THEN Finish(s, Respond([req[s] EXCEPT !.failure = "config"], 400,
                                 "error", Absent, "absent"))
          ELSE Continue(s, [req[s] EXCEPT !.pc = "query", !.retrieverCalls = @ + 1])
    /\ UNCHANGED <<variant, env, conversationHistory, nextId, appended, fresh>>

\* server.js:291-308  the index query returned or failed
ServerTestQueried(s) ==
    /\ variant = "server"
    /\ req[s].ep = "test-pinecone" /\ req[s].pc = "query"
    /\ \/ Finish(s, Respond(req[s], 200, "matches", Absent, "absent"))
       \/ Finish(s, ServerCatch([req[s] EXCEPT !.retrieverFailed = TRUE,
                                                !.failure = "retriever"]))
    /\ UNCHANGED <<variant, env, conversationHistory, nextId, appended, fresh>>

NextServer ==
    \/ \E s \in Slots : ServerTestPinecone(s)
    \/ \E s \in Slots : ServerTestEmbedded(s)
    \/ \E s \in Slots : ServerTestQueried(s)
    \/ \E s \in Slots : ServerStartSession(s)
    \/ \E s \in Slots : ServerSessionStarted(s)
    \/ \E s \in Slots : ServerPresent(s)
    \/ \E s \in Slots : ServerInteract(s)
    \/ \E s \in Slots : ServerEmbedded(s)
    \/ \E s \in Slots : ServerQueried(s)
    \/ \E s \in Slots : ServerCompleted(s)
    \/ \E s \in Slots : ServerCandidateFailed(s)
    \/ \E s \in Slots : ServerSimliReturned(s)

InitServer ==
    /\ variant = "server"
    /\ env \in {[NoEnv EXCEPT !.OPENAI = o, !.PINECONE = p] : o, p \in BOOLEAN}
               \cup {[NoEnv EXCEPT !.OPENAI = FALSE, !.SIMLI_API_KEY = FALSE]}
    /\ InitCommon

SpecServer == InitServer /\ [][NextServer]_vars

InitSpeak ==
    /\ variant = "speak"
    /\ env \in {[NoEnv EXCEPT !.PINECONE = p] : p \in BOOLEAN}
    /\ InitCommon

SpecSpeak == InitSpeak /\ [][NextSpeak]_vars

\* ================================================================ part_000
\* part_000:30-36
requireKey == env.SIMLI_API_KEY

\* part_000:38-44
requireSimliConfig == env.SIMLI_API_KEY /\ env.SIMLI_FACE_ID

\* part_000:31-34, 39-42  a guard that fails sends the 400 itself and
\* returns false
GuardSends(r, passed) ==
    IF passed THEN r
    ELSE Respond([r EXCEPT !.failure = "config"], 400, "error", Absent, "absent")

GuardChain_NoShortCircuit(r) ==
    GuardSends(GuardSends(r, requireKey), requireSimliConfig)

\* part_000:91, 124  if (!requireKey(res) || !requireSimliConfig(res)) return:
\* the second guard runs only when the first one passed
GuardChain(r) ==
    IF ~requireKey THEN GuardSends(r, requireKey)
    ELSE GuardSends(GuardSends(r, requireKey), requireSimliConfig)

\* the HTTP statuses an upstream provider may answer a failed call with
UpstreamStatuses == {401, 503}

\* part_000:164-168  catch (error): the upstream status and body when the
\* error carries a response, else 500 and the message
ProxyCatch(r) ==
    {Respond(r, st, "upstream", Absent, "absent") : st \in UpstreamStatuses}
    \cup {Respond(r, 500, "string", Absent, "absent")}

\* part_000:123-138  POST /agent/present up to the model call
ProxyPresent(s) ==
    /\ variant = "proxy"
    /\ CanStart(s)
    /\ LET r0 == [NewReq("present") EXCEPT !.text = Utterance(nextId + 1)] IN
       IF GuardChain(r0).pc = "done"
       THEN Finish(s, GuardChain(r0))
       ELSE IF ~env.OPENAI
       THEN Finish(s, Respond([r0 EXCEPT !.failure = "config"], 400, "error",
                              Absent, "absent"))
       ELSE Continue(s, [r0 EXCEPT !.pc = "llm", !.llmCalls = 1,
                                   !.messages = << [role |-> "system", content |-> Lit("presenter")],
                                                   [role |-> "user", content |-> Lit("Summarize") \o r0.text] >>])
    /\ nextId' = nextId + 1
    /\ UNCHANGED <<variant, env, conversationHistory, appended, fresh>>

\* part_000:139  content?.trim() || "Here's your slide."
ProxySpeech(content) ==
    IF content = EmptyString \/ content = Undefined THEN Lit("Here's your slide.")
    ELSE content

\* part_000:130-160, 164-168  the model call returned or failed
ProxyCompleted(s) ==
    /\ variant = "proxy"
    /\ req[s].ep = "present" /\ req[s].pc = "llm"
    /\ \/ \E content \in {Completion(req[s].id), EmptyString} :
            Continue(s, [req[s] EXCEPT !.pc = "simli", !.llmOk = TRUE,
                                       !.finalScript = ProxySpeech(content),
                                       !.simliCalls = @ + 1])
       \/ \E e \in ProxyCatch([req[s] EXCEPT !.failure = "llm"]) : Finish(s, e)
    /\ UNCHANGED <<variant, env, conversationHistory, nextId, appended, fresh>>

\* part_000:156-168  the Simli call returned or failed
ProxySimliReturned(s) ==
    /\ variant = "proxy"
    /\ req[s].ep = "present" /\ req[s].pc = "simli"
    /\ \/ Finish(s, Respond(req[s], 200, "speech", JsonField(req[s].finalScript), "data"))
       \/ \E e \in ProxyCatch([req[s] EXCEPT !.simliFailed = TRUE,
                                             !.failure = "simli"]) : Finish(s, e)
    /\ UNCHANGED <<variant, env, conversationHistory, nextId, appended, fresh>>

ProxySessionCatch_NoStatus(r) ==
    {Respond(r, 200, b, Absent, "absent") : b \in {"upstream", "string"}}

\* part_000:68-69, 84-85  catch (error): always 500, with the upstream body
\* when the error carries a response, else the message
ProxySessionCatch(r) ==
    {Respond(r, 500, b, Absent, "absent") : b \in {"upstream", "string"}}

\* part_000:54-63, 74-81  POST /simli/start-session and ALL /simli/ice-servers
\* up to the provider call
ProxyStartSession(s) ==
    /\ variant = "proxy"
    /\ CanStart(s)
    /\ \E ep \in {"start-session", "ice-servers"} :
         IF ~requireKey
         THEN Finish(s, GuardSends(NewReq(ep), requireKey))
         ELSE Continue(s, [NewReq(ep) EXCEPT !.pc = "simli", !.simliCalls = 1])
    /\ nextId' = nextId + 1
    /\ UNCHANGED <<variant, env, conversationHistory, appended, fresh>>

\* part_000:64-70, 82-86  the provider answered, or the call failed
ProxySessionStarted(s) ==
    /\ variant = "proxy"
    /\ req[s].ep \in {"start-session", "ice-servers"} /\ req[s].pc = "simli"
    /\ \/ Finish(s, Respond(req[s], 200, "upstream", Absent, "absent"))
       \/ \E e \in ProxySessionCatch([req[s] EXCEPT !.simliFailed = TRUE,
                                                    !.failure = "simli"]) :
            Finish(s, e)
    /\ UNCHANGED <<variant, env, conversationHistory, nextId, appended, fresh>>

\* the text field of a /simli/talk body: present, missing, or ""
TalkTexts(id) == {Utterance(id), Undefined, EmptyString}

\* part_000:90-113  POST /simli/talk up to the provider call
ProxyTalk(s) ==
    /\ variant = "proxy"
    /\ CanStart(s)
    /\ \E text \in TalkTexts(nextId + 1) :
         LET r0 == [NewReq("talk") EXCEPT !.text = text] IN
         IF GuardChain(r0).pc = "done"
         THEN Finish(s, GuardChain(r0))
         ELSE IF text = Undefined \/ text = EmptyString
         THEN Finish(s, Respond([r0 EXCEPT !.failure = "input"], 400, "error",
                                Absent, "absent"))
         ELSE Continue(s, [r0 EXCEPT !.pc = "simli", !.simliCalls = 1])
    /\ nextId' = nextId + 1
    /\ UNCHANGED <<variant, env, conversationHistory, appended, fresh>>

\* part_000:109-119  the provider answered the talk call, or the call failed
ProxyTalked(s) ==
    /\ variant = "proxy"
    /\ req[s].ep = "talk" /\ req[s].pc = "simli"
    /\ \/ Finish(s, Respond(req[s], 200, "upstream", Absent, "absent"))
       \/ \E e \in ProxyCatch([req[s] EXCEPT !.simliFailed = TRUE,
                                             !.failure = "simli"]) : Finish(s, e)
    /\ UNCHANGED <<variant, env, conversationHistory, nextId, appended, fresh>>

\* part_000:172  GET /health answers at once
ProxyHealth ==
    /\ variant = "proxy"
    /\ wire' = Respond([IdleReq EXCEPT !.ep = "health"], 200, "ok", Absent, "absent")
    /\ UNCHANGED <<variant, env, conversationHistory, req, nextId, appended, fresh>>

NextProxy ==
    \/ \E s \in Slots : ProxyStartSession(s)
    \/ \E s \in Slots : ProxySessionStarted(s)
    \/ \E s \in Slots : ProxyTalk(s)
    \/ \E s \in Slots : ProxyTalked(s)
    \/ ProxyHealth
    \/ \E s \in Slots : ProxyPresent(s)
    \/ \E s \in Slots : ProxyCompleted(s)
    \/ \E s \in Slots : ProxySimliReturned(s)

InitProxy ==
    /\ variant = "proxy"
    /\ env \in {[NoEnv EXCEPT !.OPENAI = o, !.SIMLI_API_KEY = k, !.SIMLI_FACE_ID = f] :
                  o, k, f \in BOOLEAN}
    /\ InitCommon

SpecProxy == InitProxy /\ [][NextProxy]_vars

\* ================================================================ all variants
Init == InitServer \/ InitSpeak \/ InitProxy

Next == NextServer \/ NextSpeak \/ NextProxy

Spec == Init /\ [][Next]_vars

\* ================================================================ properties
\* every request the state knows: those in flight and the one on the wire
Known == {req[s] : s \in Slots} \cup {wire}

KnownTypes == {"PRESENT", "ANSWER", "DECIDE_NEXT_MOVE", "SHOULD_ASK", "TTS_ONLY"}

IsAnswer(r) == (r.ep = "speak" /\ r.type = "ANSWER") \/ r.ep = "interact"

\* the step just taken built an answer's message list and sent it to the model
AnswerBuilt == wire.pc = "llm" /\ IsAnswer(wire) /\ wire.llmCalls = 1

\* the turns between the system message and the final user message
Snapshot(messages) == SubSeq(messages, 2, Len(messages) - 1)

\* the positions of an atom in a string
Positions(content, atom) == {i \in 1..Len(content) : content[i] = atom}

\* C1: the length of the conversation history never exceeds the variant's cap
\* (10 in server.js, 6 in part_001) after any handler step.
C1_HistoryWithinCap == Len(conversationHistory) <= Cap

\* C2: once more turns were appended than the cap, the history is exactly the
\* most recent cap-many turns appended since the last reset, in push order.
C2_RetainsMostRecent ==
    Len(appended) > Cap => conversationHistory = SliceLast(appended, Cap)

\* C3 (as claimed): the first answer request started after a start-session
\* request finished sees no prior turns in its message list.  (Stated for the
\* runs whose turns all come from PRESENT, ANSWER, present and interact
\* requests, so that a violation does not rest on the turn an unrecognised
\* type pushes, C7.)
C3_NextAnswerSeesNoTurns ==
    (/\ AnswerBuilt
     /\ wire.afterReset # "no"
     /\ \A i \in 1..Len(conversationHistory) :
            conversationHistory[i].content # EmptyString)
        => Snapshot(wire.messages) = << >>

\* C3 (amended): the reset step of a start-session request leaves the history
\* empty whatever it held, the history holds no turn from before the last
\* reset, and the first answer request started after it sees no prior turns
\* when no turn was appended since that reset.
C3_ResetEmptiesHistory ==
    /\ (wire.ep = "simli-config" /\ wire.pc = "done") => conversationHistory = << >>
    /\ (wire.ep = "start-session" /\ wire.pc = "simli") => conversationHistory = << >>
    /\ appended = << >> => conversationHistory = << >>
    /\ (AnswerBuilt /\ wire.afterReset # "no" /\ wire.builtClean)
          => Snapshot(wire.messages) = << >>

C3_Witness ==
    /\ AnswerBuilt
    /\ wire.afterReset = "cleared"
    /\ wire.builtClean
    /\ Snapshot(wire.messages) = << >>

\* C4: a TTS_ONLY request makes no model call and pushes no turn; the text it
\* sends to the synthesizer and returns as `text` is the request's text.
C4_TtsOnlyVerbatim ==
    \A r \in Known :
        (r.ep = "speak" /\ r.type = "TTS_ONLY") =>
            /\ r.llmCalls = 0
            /\ r.pushes = 0
            /\ r.pc = "tts" => (r.ttsCalls = 1 /\ r.ttsText = r.text)
            /\ (r.pc = "done" /\ r.status = 200) => r.bodyText = JsonField(r.text)

C4_Witness ==
    /\ wire.ep = "speak" /\ wire.type = "TTS_ONLY"
    /\ wire.pc = "done" /\ wire.status = 200
    /\ wire.bodyText = Utterance(wire.id)
    /\ conversationHistory # << >>
    /\ conversationHistory = appended

\* C5: an /agent/speak request whose speech synthesis call failed ends with
\* an error response that carries no text.
C5_SynthesisFailureFails ==
    (wire.ep = "speak" /\ wire.pc = "done" /\ wire.ttsFailed) =>
        /\ wire.status >= 400
        /\ wire.body = "error"
        /\ wire.bodyText = Absent

C5_Witness ==
    /\ wire.ep = "speak" /\ wire.pc = "done"
    /\ wire.ttsFailed /\ wire.llmOk
    /\ wire.status = 500

\* C6: a present or interact request whose model call succeeded and whose
\* Simli call failed is answered 2xx with the generated text and a null or
\* absent avatar payload.
C6_SidecarFailureKeepsText ==
    (wire.pc = "done" /\ wire.ep \in {"present", "interact"}
       /\ wire.llmOk /\ wire.simliFailed) =>
        /\ wire.status \in 200..299
        /\ wire.bodyText = wire.finalScript
        /\ wire.bodySimli \in {"null", "absent"}

\* C7: an /agent/speak request of an unrecognised type is rejected with an
\* error response, pushes no turn and makes no synthesizer call.
C7_UnknownTypeRejected ==
    \A r \in Known :
        (r.ep = "speak" /\ r.type \notin KnownTypes) =>
            /\ r.pushes = 0
            /\ r.ttsCalls = 0
            /\ r.pc = "done" => r.status >= 400

\* the style instruction inside the system message of a PRESENT call
StyleOf(messages) == SubSeq(messages[1].content, 2, 2)

PresentCalled == wire.ep = "speak" /\ wire.type = "PRESENT" /\ wire.pc = "llm"

\* C8 (as claimed): opening when the slide index is 1, closing when it equals
\* the total, transition for every other index.
C8_StyleByPosition ==
    PresentCalled =>
        /\ wire.slideIndex = 1 => StyleOf(wire.messages) = Lit("opening")
        /\ wire.slideIndex = wire.totalSlides => StyleOf(wire.messages) = Lit("closing")
        /\ (wire.slideIndex # 1 /\ wire.slideIndex # wire.totalSlides)
              => StyleOf(wire.messages) = Lit("transition")

\* C8 (amended): opening when the slide index is 1, closing when it equals
\* the total and is not 1, transition for every other index.
C8_StyleFirstMatch ==
    PresentCalled =>
        /\ wire.slideIndex = 1 => StyleOf(wire.messages) = Lit("opening")
        /\ (wire.slideIndex # 1 /\ wire.slideIndex = wire.totalSlides)
              => StyleOf(wire.messages) = Lit("closing")
        /\ (wire.slideIndex # 1 /\ wire.slideIndex # wire.totalSlides)
              => StyleOf(wire.messages) = Lit("transition")

C8_Witness ==
    /\ PresentCalled
    /\ wire.slideIndex = 1 /\ wire.totalSlides = 1
    /\ StyleOf(wire.messages) = Lit("opening")

\* C9: the message list of an answer request is the system message, holding
\* the retrieved knowledge before the slide context, then every turn of the
\* history as it is when the list is built, in history order, then the user
\* message holding the new utterance.
C9_AnswerContextOrder ==
    AnswerBuilt =>
        LET m == wire.messages
            sys == m[1].content
            ctx == Positions(sys, SlideContext(wire.id)[1])
            know == Positions(sys, Passages(wire.id)[1])
        IN /\ Len(m) = Len(conversationHistory) + 2
           /\ m[1].role = "system"
           /\ Cardinality(ctx) = 1
           /\ wire.knowledge # EmptyString => Cardinality(know) = 1
           /\ wire.knowledge = EmptyString => know = {}
           /\ \A k \in know : \A c \in ctx : k < c
           /\ Snapshot(m) = conversationHistory
           /\ m[Len(m)].role = "user"
           /\ m[Len(m)].content[Len(m[Len(m)].content)] = Utterance(wire.id)[1]

C9_Witness ==
    /\ AnswerBuilt
    /\ wire.knowledge = Passages(wire.id)
    /\ Len(conversationHistory) >= 2
    /\ Snapshot(wire.messages) = conversationHistory

\* C10: a DECIDE_NEXT_MOVE or SHOULD_ASK request pushes no turn and makes no
\* synthesizer call, whether it succeeds or fails.
C10_ClassificationTouchesNothing ==
    \A r \in Known :
        (r.ep = "speak" /\ r.type \in {"DECIDE_NEXT_MOVE", "SHOULD_ASK"}) =>
            /\ r.pushes = 0
            /\ r.ttsCalls = 0
            /\ r.pc \in {"classify", "done"}

C10_Witness ==
    /\ wire.ep = "speak" /\ wire.type = "DECIDE_NEXT_MOVE"
    /\ wire.pc = "done" /\ wire.status = 500 /\ wire.llmOk
    /\ conversationHistory # << >>
    /\ conversationHistory = appended

IsNarration(r) == (r.ep = "speak" /\ r.type = "PRESENT") \/ r.ep = "present"

\* C11: a present or answer request whose language-model call failed ends with
\* an error response, and that request started no speech synthesis call and no
\* avatar call and pushed no turn.
C11_ModelFailureStopsRequest ==
    \A r \in Known :
        (IsNarration(r) \/ IsAnswer(r)) =>
            /\ r.failure = "llm" =>
                  /\ r.pc = "done" /\ r.status >= 400
                  /\ r.ttsCalls = 0 /\ r.simliCalls = 0 /\ r.pushes = 0
            /\ (r.pc = "llm" /\ ~r.llmOk) =>
                  (r.ttsCalls = 0 /\ r.simliCalls = 0 /\ r.pushes = 0)

C11_Witness ==
    /\ wire.ep = "interact" /\ wire.pc = "done"
    /\ wire.failure = "llm" /\ wire.llmCalls = NumCandidates
    /\ wire.status = 500
    /\ conversationHistory # << >>
    /\ conversationHistory = appended

\* the number of external calls a request has started
ExternalCalls(r) == r.llmCalls + r.ttsCalls + r.simliCalls + r.retrieverCalls

\* a credential or identifier the endpoint of r needs is unset
ConfigMissing(r) ==
    CASE variant = "server" /\ r.ep = "start-session" ->
            ~env.SIMLI_API_KEY \/ ~env.SIMLI_FACE_ID
      [] variant = "server" /\ r.ep \in {"present", "interact"} -> ~env.OPENAI
      [] variant = "server" /\ r.ep = "test-pinecone" -> ~env.OPENAI \/ ~env.PINECONE
      [] variant = "proxy" /\ r.ep \in {"start-session", "ice-servers"} ->
            ~env.SIMLI_API_KEY
      [] variant = "proxy" /\ r.ep = "talk" ->
            ~env.SIMLI_API_KEY \/ ~env.SIMLI_FACE_ID
      [] variant = "proxy" /\ r.ep = "present" ->
            ~env.SIMLI_API_KEY \/ ~env.SIMLI_FACE_ID \/ ~env.OPENAI
      [] OTHER -> FALSE

\* C12: a request to an endpoint whose needed credential or identifier is
\* unset is answered at once with a 4xx status and starts no external call.
C12_MissingConfigFailsFast ==
    \A r \in Known :
        (r.pc # "idle" /\ ConfigMissing(r)) =>
            /\ r.pc = "done"
            /\ r.status \in 400..499
            /\ ExternalCalls(r) = 0

\* the request lacks a field its endpoint requires: the text of a talk,
\* TTS_ONLY or ANSWER request
RequiredFieldMissing(r) ==
    \/ r.ep = "talk" /\ r.text \in {Undefined, EmptyString}
    \/ r.ep = "speak" /\ r.type \in {"TTS_ONLY", "ANSWER"} /\ r.text = Undefined

\* C13: a request that lacks a field its endpoint requires is answered at once
\* with a 4xx status and starts no external call.
C13_MissingFieldRejected ==
    \A r \in Known :
        (r.pc # "idle" /\ RequiredFieldMissing(r)) =>
            /\ r.pc = "done"
            /\ r.status \in 400..499
            /\ ExternalCalls(r) = 0

\* the step just taken ended a request in failure
FailedNow == wire.failure # "none"

\* C14 (as claimed): every request that ends in failure is answered with a
\* status in 400..599 and a JSON object body carrying an error message.
C14_FailureAnswersErrorObject ==
    FailedNow =>
        /\ wire.pc = "done" /\ wire.responses = 1
        /\ wire.status \in 400..599
        /\ wire.body = "error"

\* C14 (amended): every request that ends in failure is answered, once, with a
\* status in 400..599 and a JSON body that is an object { error: message }, the
\* upstream provider's error body passed through, or the bare message string.
C14_FailureAnswered ==
    FailedNow =>
        /\ wire.pc = "done" /\ wire.responses = 1
        /\ wire.status \in 400..599
        /\ wire.body \in {"error", "upstream", "string"}
        /\ wire.body \in {"upstream", "string"} =>
              /\ wire.failure \in {"llm", "simli"}
              /\ \/ variant = "proxy"
                 \/ variant = "server" /\ wire.ep = "start-session"

C14_Witness ==
    /\ variant = "server"
    /\ wire.ep = "start-session" /\ wire.pc = "done"
    /\ wire.failure = "simli"
    /\ wire.status = 500 /\ wire.body = "string"

\* C15: a successful DECIDE_NEXT_MOVE response carries the action "ANSWER" or
\* "RESUME", a successful SHOULD_ASK response carries a boolean ask, and a
\* classifier output that does not parse yields an error response.
C15_DecisionShape ==
    (wire.ep = "speak" /\ wire.pc = "done" /\ wire.llmOk) =>
        /\ (wire.type = "DECIDE_NEXT_MOVE" /\ wire.status = 200)
              => wire.decision \in {"ANSWER", "RESUME"}
        /\ (wire.type = "SHOULD_ASK" /\ wire.status = 200)
              => wire.decision \in {"true", "false"}
        /\ (wire.type \in {"DECIDE_NEXT_MOVE", "SHOULD_ASK"} /\ wire.failure = "parse")
              => wire.status >= 400

\* the step just taken is the save-to-memory step of a narration or an answer
\* whose model call succeeded
SavedNow ==
    /\ wire.pc \in {"tts", "simli"} /\ wire.llmOk
    /\ wire.ep \in {"speak", "interact"} \/ (wire.ep = "present" /\ variant = "server")
    /\ IsNarration(wire) \/ IsAnswer(wire)

\* the last atom of a turn's content
LastAtom(turn) == turn.content[Len(turn.content)]

\* C16: a narration whose model call succeeded appends exactly one assistant
\* turn holding the reply; an answer appends the user turn holding the
\* utterance, immediately followed by the assistant turn holding the reply.
C16_TurnsAppended ==
    SavedNow =>
        LET h == conversationHistory
            n == Len(h)
        IN /\ IsNarration(wire) =>
                /\ wire.pushes = 1 /\ n >= 1
                /\ h[n].role = "assistant"
                /\ LastAtom(h[n]) = Completion(wire.id)[1]
           /\ IsAnswer(wire) =>
                /\ wire.pushes = 2 /\ n >= 2
                /\ h[n - 1] = Turn("user", wire.text)
                /\ h[n] = Turn("assistant", wire.finalScript)

\* C17: callOpenAIChat calls the candidates in list order, a later one only
\* after every earlier one failed, at most once each; it stops at the first
\* success with that candidate's completion, and when the last candidate
\* failed it throws the last candidate's error.
C17_FallbackInOrder ==
    \A r \in Known :
        (variant = "server" /\ r.ep \in {"present", "interact"}) =>
            /\ r.llmCalls <= NumCandidates
            /\ r.pc = "llm" =>
                  /\ r.model \in 1..NumCandidates
                  /\ r.llmCalls = r.model
                  /\ r.lastErr = r.model - 1
            /\ r.usedModel # 0 =>
                  /\ r.llmOk /\ r.llmCalls = r.usedModel
                  /\ r.lastErr = r.usedModel - 1
                  /\ r.finalScript = Completion(r.id)
                  /\ r.thrown = 0
            /\ r.failure = "llm" =>
                  /\ r.pc = "done" /\ ~r.llmOk
                  /\ r.llmCalls = NumCandidates
                  /\ r.thrown = NumCandidates
            /\ r.llmOk => r.failure # "llm"

C17_Witness ==
    /\ variant = "server"
    /\ wire.ep = "interact" /\ wire.pc = "simli"
    /\ wire.usedModel = 2 /\ wire.llmCalls = 2 /\ wire.lastErr = 1
    /\ wire.finalScript = Completion(wire.id)

\* the request number a turn came from (every content ends with an atom of
\* its request; the "" pushed for an unrecognised type has none)
TurnId(turn) == IF turn.content = EmptyString THEN 0 ELSE LastAtom(turn).n

\* a is a suffix of b
IsSuffix(a, b) ==
    /\ Len(a) <= Len(b)
    /\ a = SubSeq(b, Len(b) - Len(a) + 1, Len(b))

\* two turns of the history stand in the reverse of their requests' arrival
Misordered(history) ==
    \E i, j \in 1..Len(history) :
        /\ i < j
        /\ TurnId(history[j]) # 0
        /\ TurnId(history[i]) > TurnId(history[j])

\* C18: with two appending requests in flight at the same time, a history
\* whose turns stand in an order other than the arrival order of their
\* requests is reachable (C18_Witness).  In every run no pushed turn is lost
\* to the race (the history is a suffix of the pushes in push order), and a
\* step makes the history misordered only by appending the turns of a request
\* that was still awaiting its model call when a later-arrived request appended.
C18_MisorderOnlyByOvertaking ==
    [][/\ IsSuffix(conversationHistory', appended')
       /\ (Misordered(conversationHistory') /\ ~Misordered(conversationHistory)) =>
             \E s \in Slots :
                /\ req[s].pc = "llm"
                /\ wire'.id = req[s].id /\ wire'.pushes > 0
                /\ \E i \in 1..Len(conversationHistory) :
                      TurnId(conversationHistory[i]) > req[s].id]_vars

C18_Witness ==
    /\ Misordered(conversationHistory)
    /\ conversationHistory = appended
    /\ Cardinality({TurnId(conversationHistory[i]) :
                        i \in 1..Len(conversationHistory)}) = 2
    /\ \A s \in Slots : req[s].pc = "idle"

\* C19: when the retriever is not configured, or its embedding or query call
\* fails, the knowledge of the answer is the empty string and the answer goes
\* on to its model call; no answer request ends because of the retriever.
C19_RetrieverNeverFails ==
    /\ \A r \in Known :
          IsAnswer(r) =>
             /\ r.failure # "retriever"
             /\ r.retrieverFailed =>
                   /\ r.pc = "llm" /\ r.llmCalls = 1
                   /\ r.knowledge = EmptyString
                   /\ r.retrieverCalls \in {1, 2}
    /\ (AnswerBuilt /\ ~env.PINECONE) =>
          (wire.knowledge = EmptyString /\ wire.retrieverCalls = 0)
    /\ (AnswerBuilt /\ wire.knowledge = EmptyString) =>
          Positions(wire.messages[1].content, Passages(wire.id)[1]) = {}

C19_Witness ==
    /\ AnswerBuilt
    /\ wire.retrieverFailed /\ wire.retrieverCalls = 2
    /\ wire.knowledge = EmptyString
    /\ conversationHistory # << >>

\* C20: a reset does not isolate the requests in flight: a request that
\* awaited the retriever or the model when the reset happened still appends
\* its turns when its model call succeeds, so the history of the new session
\* ends with turns of a request of the session before (C20_Witness: they are
\* all the new history holds).
C20_InFlightAppendsAfterReset ==
    (SavedNow /\ wire.crossedReset) =>
        LET h == conversationHistory
            n == Len(h)
        IN /\ wire.pushes > 0 /\ n >= wire.pushes
           /\ \A i \in (n - wire.pushes + 1)..n : TurnId(h[i]) = wire.id
           /\ IsSuffix(SubSeq(h, n - wire.pushes + 1, n), appended)

C20_Witness ==
    /\ SavedNow /\ wire.crossedReset
    /\ wire.pushes > 0
    /\ Len(conversationHistory) = wire.pushes
    /\ \A i \in 1..Len(conversationHistory) :
          TurnId(conversationHistory[i]) = wire.id
    /\ nextId > wire.id

\* C21: a PRESENT or ANSWER request of /agent/speak appends its assistant turn
\* in the step that starts the speech synthesis call, and the step that
\* answers the error of a failed synthesis leaves the history as it is: the
\* failed request's script stays in memory.
C21_FailedSpeechKeepsTurn ==
    [][(wire'.ep = "speak" /\ wire'.type \in {"PRESENT", "ANSWER"}) =>
          /\ wire'.pc = "tts" =>
                /\ wire'.pushes = 1 /\ wire'.ttsCalls = 1
                /\ conversationHistory' # << >>
                /\ conversationHistory'[Len(conversationHistory')]
                      = Turn("assistant", wire'.finalScript)
                /\ appended' = appended \o << Turn("assistant", wire'.finalScript) >>
          /\ (wire'.pc = "done" /\ wire'.ttsFailed) =>
                /\ wire'.status >= 400
                /\ wire'.pushes = 1
                /\ conversationHistory' = conversationHistory
                /\ appended' = appended]_vars

C21_Witness ==
    /\ wire.ep = "speak" /\ wire.type = "PRESENT"
    /\ wire.pc = "done" /\ wire.ttsFailed /\ wire.status = 500
    /\ wire.pushes = 1
    /\ conversationHistory = << Turn("assistant", Completion(wire.id)) >>

\* C22: the user turn and the assistant turn of one /agent/interact request
\* enter the history in one step, next to each other and in that order;
\* afterwards every user turn of the history is directly followed by the
\* assistant turn of the same request, whatever other requests, resets and
\* truncations happened in between.
C22_InteractPairAtomic ==
    /\ (variant = "server" /\ wire.ep = "interact" /\ wire.pc = "simli") =>
          LET n == Len(conversationHistory) IN
          /\ wire.pushes = 2 /\ n >= 2
          /\ conversationHistory[n - 1] = Turn("user", Utterance(wire.id))
          /\ conversationHistory[n] = Turn("assistant", Completion(wire.id))
    /\ variant = "server" =>
          \A i \in 1..Len(conversationHistory) :
              conversationHistory[i].role = "user" =>
                  /\ i < Len(conversationHistory)
                  /\ conversationHistory[i + 1] =
                        Turn("assistant", Completion(TurnId(conversationHistory[i])))

C22_Witness ==
    /\ variant = "server"
    /\ Misordered(conversationHistory)
    /\ \E i \in 1..Len(conversationHistory) : conversationHistory[i].role = "user"
    /\ Len(conversationHistory) >= 4
    /\ \A s \in Slots : req[s].pc = "idle"

\* C23 (as claimed): when a start-session request of server.js has been
\* answered, with 200 or with 500, the history is empty.
C23_EmptyAfterRequest ==
    (variant = "server" /\ wire.ep = "start-session" /\ wire.pc = "done") =>
        conversationHistory = << >>

\* C23 (amended): the start-session handler of server.js empties the history in the
\* step that starts the provider call; the step that answers (200, or 500
\* when the call failed) does not touch the history, which is then empty
\* unless another request appended while the call was awaited.
C23_ResetBeforeProviderCall ==
    [][(variant = "server" /\ wire'.ep = "start-session") =>
          /\ wire'.pc = "simli" =>
                /\ conversationHistory' = << >>
                /\ wire'.simliCalls = 1
          /\ wire'.pc = "done" =>
                /\ conversationHistory' = conversationHistory
                /\ appended' = appended
                /\ conversationHistory' = appended'
                /\ wire'.failure = "simli" => wire'.status = 500]_vars

C23_Witness ==
    /\ variant = "server"
    /\ wire.ep = "start-session" /\ wire.pc = "done"
    /\ wire.failure = "simli" /\ wire.status = 500
    /\ wire.hadTurns
    /\ conversationHistory = << >>

\* C24: every request is answered exactly once, on every path of every
\* handler: a response just sent is the first of its request, and a request
\* still in flight has sent none.
C24_ExactlyOneResponse ==
    /\ wire.pc = "done" => wire.responses = 1
    /\ \A r \in Known : r.pc # "done" => r.responses = 0
    /\ \A s \in Slots : req[s].pc # "done"

C24_Witness ==
    /\ variant = "proxy"
    /\ ~env.SIMLI_API_KEY /\ ~env.SIMLI_FACE_ID
    /\ wire.ep = "present" /\ wire.pc = "done"
    /\ wire.status = 400 /\ wire.failure = "config"
    /\ wire.responses = 1

====
